---------------------------- MODULE Spec2Model ----------------------------
(***************************************************************************)
(* Narrative_Edit: the vertical manuscript editor                          *)
(* (src/narrative_edit/vertical_editor.py) and the submission (PDF) layout *)
(* of the main window (src/narrative_edit/main_window.py).                 *)
(*                                                                         *)
(* A text is a sequence of characters, each character a one-character      *)
(* string; offsets are 0-based as in the source, so offset i of a text t   *)
(* is t[i + 1].  A token's text is the sequence of its characters.  The    *)
(* module is ASCII, so of the kinsoku sets only the ASCII members appear.  *)
(***************************************************************************)
EXTENDS Integers, Sequences, FiniteSets, TLC

VARIABLES
    _text,            \* self._text
    _cursor_index,    \* self._cursor_index
    _anchor_index,    \* self._anchor_index
    _modified,        \* self._modified
    _saved_snapshot,  \* self._saved_snapshot
    _grid_rows,       \* self._grid_rows
    _grid_cols,       \* self._grid_cols
    _units,           \* self._units
    _cursor_slots,    \* self._cursor_slots
    _total_pages,     \* self._total_pages
    _history,         \* self._history
    _history_index,   \* self._history_index
    submission,       \* what the last _layout_submission_units call returned
    last_call         \* the last handler that ran: see Call

vars == <<_text, _cursor_index, _anchor_index, _modified, _saved_snapshot,
          _grid_rows, _grid_cols, _units, _cursor_slots, _total_pages,
          _history, _history_index, submission, last_call>>

-----------------------------------------------------------------------------
(* Program constants *)

\* set_grid clamps rows and cols to [MIN_GRID, MAX_GRID]
MIN_GRID == 8
MAX_GRID == 80
\* the grid of a new editor, and the grid of the submission layout
DEFAULT_GRID == 40
SUBMISSION_ROWS == 40
SUBMISSION_COLS == 40

LINE_HEAD_PROHIBITED == {<<")">>, <<"]">>}
LINE_END_PROHIBITED == {<<"(">>, <<"[">>}

\* the ASCII decimal digits
ASCII_DIGITS == {"0", "1", "2", "3", "4", "5", "6", "7", "8", "9"}

\* digits of another script, each one character, written by code point:
\* FULLWIDTH DIGIT ONE and FULLWIDTH DIGIT TWO
FULLWIDTH_DIGITS == {"U+FF11", "U+FF12"}

\* str.isdigit on the characters of the model: true of the decimal digits of
\* every script
isdigit(ch) == ch \in ASCII_DIGITS \cup FULLWIDTH_DIGITS

Max(a, b) == IF a >= b THEN a ELSE b
Min(a, b) == IF a <= b THEN a ELSE b

\* A loop of the source that runs once per character or per token is an
\* iteration operator on the loop's state, applied n times by a recursive
\* operator that runs the first half of the iterations, tests the loop's exit
\* condition, and runs the rest: the iterations run in the order of the
\* source, and the evaluation stays shallow.

RECURSIVE Rep(_, _)
\* the sequence of n copies of x
Rep(x, n) ==
    IF n <= 0 THEN <<>>
    ELSE IF n = 1 THEN <<x>>
    ELSE Rep(x, n \div 2) \o Rep(x, n - (n \div 2))

-----------------------------------------------------------------------------
(* Bounds of the model *)

\* the longest tail of varied characters after a run of filler characters
MaxTail == 3

-----------------------------------------------------------------------------
(* Tokenizer: VerticalManuscriptEditor._tokenize *)

\* the condition of the tate-chu-yoko branch at offset i
IsTcyStartNoLookahead(text, i) ==
    /\ isdigit(text[i + 1])
    /\ i + 1 < Len(text)
    /\ isdigit(text[i + 2])
    /\ (i = 0 \/ ~isdigit(text[i]))

IsTcyStart(text, i) ==
    /\ isdigit(text[i + 1])
    /\ i + 1 < Len(text)
    /\ isdigit(text[i + 2])
    /\ (i = 0 \/ ~isdigit(text[i]))
    /\ (i + 2 = Len(text) \/ ~isdigit(text[i + 3]))

\* the offset after a tate-chu-yoko token that starts at i
TcyEndOverlap(i) == i + 1

TcyEnd(i) == i + 2

\* one iteration of the while loop; st is [i, tokens]
_tokenize_iteration(text, st) ==
    IF st.i >= Len(text) THEN st
    ELSE IF text[st.i + 1] = "\n"
    THEN [i |-> st.i + 1,
          tokens |-> Append(st.tokens, [start |-> st.i, end |-> st.i + 1,
                                        text |-> <<text[st.i + 1]>>,
                                        kind |-> "newline"])]
    ELSE IF IsTcyStart(text, st.i)
    THEN [i |-> TcyEnd(st.i),
          tokens |-> Append(st.tokens, [start |-> st.i, end |-> st.i + 2,
                                        text |-> SubSeq(text, st.i + 1, st.i + 2),
                                        kind |-> "tcy"])]
    ELSE [i |-> st.i + 1,
          tokens |-> Append(st.tokens, [start |-> st.i, end |-> st.i + 1,
                                        text |-> <<text[st.i + 1]>>,
                                        kind |-> "char"])]

RECURSIVE _tokenize_loop(_, _, _)
\* n iterations of the while loop
_tokenize_loop(text, st, n) ==
    IF n <= 0 THEN st
    ELSE IF n = 1 THEN _tokenize_iteration(text, st)
    ELSE LET half == _tokenize_loop(text, st, n \div 2)
         IN  IF half.i >= Len(text) THEN half
             ELSE _tokenize_loop(text, half, n - (n \div 2))

\* the loop ends when i reaches the length, after at most one iteration per
\* character
_tokenize(text) == _tokenize_loop(text, [i |-> 0, tokens |-> <<>>], Len(text)).tokens

-----------------------------------------------------------------------------
(* Layout engine: VerticalManuscriptEditor._rebuild_layout *)

\* the slot table before the pass: one (0, 0) per offset and one for the end
fresh_slots(text) == Rep(<<0, 0>>, Len(text) + 1)

\* the unit list before the pass; the list the editor held is dropped
fresh_units_keep(old_units) == old_units

fresh_units(old_units) == <<>>

\* line-end prohibition: where the token goes, from the pass position
force_wrap_never(gcol, row, token_text, rows) == <<gcol, row>>

force_wrap(gcol, row, token_text, rows) ==
    IF row = rows - 1 /\ token_text \in LINE_END_PROHIBITED
    THEN <<gcol + 1, 0>>
    ELSE <<gcol, row>>

\* line-head prohibition: does the token pull the previous unit over
pulls_back_at_any_head(units, gcol, row, token_text, rows) ==
    /\ row = 0
    /\ token_text \in LINE_HEAD_PROHIBITED
    /\ Len(units) > 0

pulls_back(units, gcol, row, token_text, rows) ==
    /\ row = 0
    /\ token_text \in LINE_HEAD_PROHIBITED
    /\ Len(units) > 0
    /\ units[Len(units)].gcol = gcol - 1
    /\ units[Len(units)].row = rows - 1

\* the previous unit moved to the head of column gcol
relocate_prev_nowhere(units, gcol) == units

relocate_prev(units, gcol) ==
    [units EXCEPT ![Len(units)] = [@ EXCEPT !.gcol = gcol, !.row = 0]]

\* the pass position after a unit placed at (gcol, row)
advance_late(gcol, row, rows) ==
    IF row + 1 > rows THEN <<gcol + 1, 0>> ELSE <<gcol, row + 1>>

advance(gcol, row, rows) ==
    IF row + 1 >= rows THEN <<gcol + 1, 0>> ELSE <<gcol, row + 1>>

\* slots with the entry of offset k set to (gcol, row)
set_slot(slots, k, gcol, row) == [slots EXCEPT ![k + 1] = <<gcol, row>>]

RECURSIVE set_slots_range(_, _, _, _, _)
\* slots with the entries of the offsets lo .. hi - 1 set to (gcol, row)
set_slots_range(slots, lo, hi, gcol, row) ==
    IF lo >= hi THEN slots
    ELSE set_slots_range(set_slot(slots, lo, gcol, row), lo + 1, hi, gcol, row)

\* the interior offsets of a token take the token's cell
set_mid_slots(slots, tok, gcol, row) ==
    set_slots_range(slots, tok.start + 1, tok.end, gcol, row)

\* the token placed at (gcol, row): the unit is appended, its interior
\* offsets take its cell, and its end offset takes the advanced position next
append_unit(st, slots, units, tok, gcol, row, next) ==
    [units |-> Append(units, [start |-> tok.start, end |-> tok.end,
                              text |-> tok.text, kind |-> tok.kind,
                              gcol |-> gcol, row |-> row]),
     slots |-> set_slot(set_mid_slots(slots, tok, gcol, row),
                        tok.end, next[1], next[2]),
     gcol  |-> next[1],
     row   |-> next[2]]

\* the row of a token that pulled the previous unit over, left at the row
\* the token was found at
row_after_pull_same(row) == row

\* the row of a token that pulled the previous unit over: row = 1
row_after_pull(row) == 1

\* the line-head rule applied to a token that goes to (at[1], at[2])
place_unit(st, slots, tok, rows, at, pull) ==
    IF pull
    THEN append_unit(st, slots, relocate_prev(st.units, at[1]), tok, at[1],
                     row_after_pull(at[2]),
                     advance(at[1], row_after_pull(at[2]), rows))
    ELSE append_unit(st, slots, st.units, tok, at[1], at[2],
                     advance(at[1], at[2], rows))

\* the line-end rule applied to a token found at the pass position
place_token(st, slots, tok, rows, at) ==
    place_unit(st, slots, tok, rows, at,
               pulls_back(st.units, at[1], at[2], tok.text, rows))

\* a newline token whose start offset takes the head of the next column
newline_step_start_after(st, tok) ==
    [units |-> st.units,
     slots |-> set_slot(set_slot(st.slots, tok.start, st.gcol + 1, 0),
                        tok.end, st.gcol + 1, 0),
     gcol  |-> st.gcol + 1,
     row   |-> 0]

\* a newline token: its start offset takes the pass position, the pass goes
\* to the head of the next column, and its end offset takes that position
newline_step(st, tok) ==
    [units |-> st.units,
     slots |-> set_slot(set_slot(st.slots, tok.start, st.gcol, st.row),
                        tok.end, st.gcol + 1, 0),
     gcol  |-> st.gcol + 1,
     row   |-> 0]

\* one iteration of the loop over the tokens; st is the pass state
\* [units, slots, gcol, row]
layout_step(st, tok, rows) ==
    IF tok.kind = "newline"
    THEN newline_step(st, tok)
    ELSE place_token(st, set_slot(st.slots, tok.start, st.gcol, st.row), tok,
                     rows, force_wrap(st.gcol, st.row, tok.text, rows))

\* one iteration of the for loop; ps is [k, st], k the index of the next token
layout_iteration(ps, tokens, rows) ==
    IF ps.k > Len(tokens) THEN ps
    ELSE [k |-> ps.k + 1, st |-> layout_step(ps.st, tokens[ps.k], rows)]

RECURSIVE layout_pass(_, _, _, _)
\* n iterations of the for loop
layout_pass(ps, tokens, n, rows) ==
    IF n <= 0 THEN ps
    ELSE IF n = 1 THEN layout_iteration(ps, tokens, rows)
    ELSE LET half == layout_pass(ps, tokens, n \div 2, rows)
         IN  IF half.k > Len(tokens) THEN half
             ELSE layout_pass(half, tokens, n - (n \div 2), rows)

\* the for loop over the tokens, from the pass state st
layout_loop(st, tokens, rows) ==
    layout_pass([k |-> 1, st |-> st], tokens, Len(tokens), rows).st

\* the largest first component (or .gcol) of a sequence, at least floor
max_unit_gcol(units, floor) ==
    IF Len(units) = 0 THEN floor
    ELSE LET S == {units[k].gcol : k \in 1..Len(units)} \cup {floor}
         IN  CHOOSE m \in S : \A x \in S : x <= m

max_gcol(slots, floor) ==
    IF Len(slots) = 0 THEN floor
    ELSE LET S == {slots[k][1] : k \in 1..Len(slots)} \cup {floor}
         IN  CHOOSE m \in S : \A x \in S : x <= m

\* max_col over the units alone
max_col_of_units(units, slots) == max_unit_gcol(units, 0)

\* max_col over the units and the cursor slots
max_col(units, slots) == max_gcol(slots, max_unit_gcol(units, 0))

total_pages_of(units, slots, cols) == Max(1, (max_col(units, slots) \div cols) + 1)

layout_of(st, cols) ==
    [units |-> st.units,
     cursor_slots |-> st.slots,
     total_pages |-> total_pages_of(st.units, st.slots, cols)]

\* the layout the editor holds after _rebuild_layout
_rebuild_layout(text, rows, cols, old_units) ==
    layout_of(layout_loop([units |-> fresh_units(old_units),
                           slots |-> fresh_slots(text),
                           gcol |-> 0, row |-> 0],
                          _tokenize(text), rows),
              cols)

-----------------------------------------------------------------------------
(* Submission layout: MainWindow._tokenize_for_submission and             *)
(* MainWindow._layout_submission_units                                     *)

\* one iteration of the while loop; st is [i, tokens]
_tokenize_for_submission_iteration(text, st) ==
    IF st.i >= Len(text) THEN st
    ELSE IF text[st.i + 1] = "\n"
    THEN [i |-> st.i + 1,
          tokens |-> Append(st.tokens, [kind |-> "newline",
                                        text |-> <<text[st.i + 1]>>])]
    ELSE IF /\ isdigit(text[st.i + 1])
            /\ st.i + 1 < Len(text)
            /\ isdigit(text[st.i + 2])
            /\ (st.i = 0 \/ ~isdigit(text[st.i]))
            /\ (st.i + 2 = Len(text) \/ ~isdigit(text[st.i + 3]))
    THEN [i |-> st.i + 2,
          tokens |-> Append(st.tokens, [kind |-> "tcy",
                                        text |-> SubSeq(text, st.i + 1, st.i + 2)])]
    ELSE [i |-> st.i + 1,
          tokens |-> Append(st.tokens, [kind |-> "char",
                                        text |-> <<text[st.i + 1]>>])]

RECURSIVE _tokenize_for_submission_loop(_, _, _)
_tokenize_for_submission_loop(text, st, n) ==
    IF n <= 0 THEN st
    ELSE IF n = 1 THEN _tokenize_for_submission_iteration(text, st)
    ELSE LET half == _tokenize_for_submission_loop(text, st, n \div 2)
         IN  IF half.i >= Len(text) THEN half
             ELSE _tokenize_for_submission_loop(text, half, n - (n \div 2))

_tokenize_for_submission(text) ==
    _tokenize_for_submission_loop(text, [i |-> 0, tokens |-> <<>>], Len(text)).tokens

\* the unit appended at (gcol, row) and the pass position advanced
submission_append(units, tok, rows, gcol, row) ==
    [units |-> Append(units, [gcol |-> gcol, row |-> row, text |-> tok.text,
                              kind |-> tok.kind]),
     gcol  |-> IF row + 1 >= rows THEN gcol + 1 ELSE gcol,
     row   |-> IF row + 1 >= rows THEN 0 ELSE row + 1]

\* the line-head rule of the submission layout
submission_place(units, tok, rows, gcol, row) ==
    IF /\ row = 0
       /\ tok.text \in LINE_HEAD_PROHIBITED
       /\ Len(units) > 0
       /\ units[Len(units)].gcol = gcol - 1
       /\ units[Len(units)].row = rows - 1
    THEN submission_append([units EXCEPT ![Len(units)] =
                               [@ EXCEPT !.gcol = gcol, !.row = 0]],
                           tok, rows, gcol, 1)
    ELSE submission_append(units, tok, rows, gcol, row)

\* one iteration of the loop over the tokens; st is [units, gcol, row]
submission_step(st, tok, rows) ==
    IF tok.kind = "newline"
    THEN [units |-> st.units, gcol |-> st.gcol + 1, row |-> 0]
    ELSE IF st.row = rows - 1 /\ tok.text \in LINE_END_PROHIBITED
    THEN submission_place(st.units, tok, rows, st.gcol + 1, 0)
    ELSE submission_place(st.units, tok, rows, st.gcol, st.row)

submission_iteration(ps, tokens, rows) ==
    IF ps.k > Len(tokens) THEN ps
    ELSE [k |-> ps.k + 1, st |-> submission_step(ps.st, tokens[ps.k], rows)]

RECURSIVE submission_pass(_, _, _, _)
submission_pass(ps, tokens, n, rows) ==
    IF n <= 0 THEN ps
    ELSE IF n = 1 THEN submission_iteration(ps, tokens, rows)
    ELSE LET half == submission_pass(ps, tokens, n \div 2, rows)
         IN  IF half.k > Len(tokens) THEN half
             ELSE submission_pass(half, tokens, n - (n \div 2), rows)

submission_loop(st, tokens, rows) ==
    submission_pass([k |-> 1, st |-> st], tokens, Len(tokens), rows).st

\* every unit put on the first page
page_index_first(unit, total_pages, cols) == 0

\* the page a unit is put on
page_index(unit, total_pages, cols) ==
    Max(0, Min(total_pages - 1, unit.gcol \div cols))

\* the units split by page
paginate(units, total_pages, cols) ==
    [page_units |->
        [p \in 1..total_pages |->
            SelectSeq(units, LAMBDA u : page_index(u, total_pages, cols) = p - 1)],
     total_pages |-> total_pages]

submission_pages(units, cols) ==
    paginate(units, Max(1, (max_unit_gcol(units, 0) \div cols) + 1), cols)

_layout_submission_units(text, rows, cols) ==
    submission_pages(submission_loop([units |-> <<>>, gcol |-> 0, row |-> 0],
                                     _tokenize_for_submission(text), rows).units,
                     cols)

-----------------------------------------------------------------------------
(* Newline normalisation: text.replace("\r\n", "\n").replace("\r", "\n") *)

\* the offsets 1 .. n in order
Iota(n) == [k \in 1..n |-> k] \o <<>>

\* the characters of text at the offsets idx, in order
Pick(text, idx) == [j \in 1..Len(idx) |-> text[idx[j]]] \o <<>>

\* the text with its "\r\n" left as they are
replace_crlf_keep(text) == text

\* replace("\r\n", "\n"): every "\r" that a "\n" follows is dropped
replace_crlf(text) ==
    Pick(text, SelectSeq(Iota(Len(text)),
                         LAMBDA k : ~(/\ text[k] = "\r"
                                      /\ k < Len(text)
                                      /\ text[k + 1] = "\n")))

\* replace("\r", "\n")
replace_cr(text) ==
    [k \in 1..Len(text) |-> IF text[k] = "\r" THEN "\n" ELSE text[k]] \o <<>>

normalize_newlines(text) == replace_cr(replace_crlf(text))

-----------------------------------------------------------------------------
(* Inputs of the model *)

RECURSIVE SeqsUpTo(_, _)
\* every sequence over S of length at most n
SeqsUpTo(S, n) ==
    IF n = 0 THEN {<<>>}
    ELSE LET shorter == SeqsUpTo(S, n - 1)
         IN  shorter \cup {Append(t, ch) : t \in shorter, ch \in S}

\* an ordinary character, a digit, a newline, a line-head-prohibited and a
\* line-end-prohibited character
TailChars == {"a", "1", "\n", ")", "("}

\* runs that end one cell before and at the end of a column (of ordinary
\* characters) or of a page (of newlines), for the smallest and the default
\* grid
FillerLengths == {0} \cup {g - d : g \in {MIN_GRID, DEFAULT_GRID}, d \in {0, 1}}

LayoutTexts ==
    {Rep(f, n) \o t : f \in {"a", "\n"}, n \in FillerLengths,
                      t \in SeqsUpTo(TailChars, MaxTail)}

\* (rows, cols) handed to set_grid: below the range and inside it
LayoutGridInputs == {<<MIN_GRID - 1, MIN_GRID - 1>>, <<DEFAULT_GRID, DEFAULT_GRID>>}

NoSubmission == [page_units |-> <<>>, total_pages |-> 0]
NoTriple == <<>>

-----------------------------------------------------------------------------
(* The editor of a tab: VerticalManuscriptEditor.__init__ then             *)
(* setPlainText(text) and setModified(state.is_dirty), as                  *)
(* EditorTab.__init__ does for a document that is not dirty                *)

Triple == <<_text, _cursor_index, _anchor_index>>

\* current_page_column_cell: the 1-based (page, column, cell) of the slot of
\* the cursor
current_page_column_cell(slots, cursor, cols) ==
    IF Len(slots) = 0 THEN <<1, 1, 1>>
    ELSE <<(slots[Min(cursor, Len(slots) - 1) + 1][1] \div cols) + 1,
           (slots[Min(cursor, Len(slots) - 1) + 1][1] % cols) + 1,
           slots[Min(cursor, Len(slots) - 1) + 1][2] + 1>>

\* the triple a handler emits with cursorPositionChanged at its end
PositionAfter == current_page_column_cell(_cursor_slots', _cursor_index', _grid_cols')

\* a handler that emits no cursorPositionChanged, takes no arguments of
\* interest, returns nothing
NoEvent == <<>>
NoArgs == <<>>
NoResult == "None"

\* the history index and the history length a handler finds
HistoryPosition == <<_history_index, Len(_history)>>
NoPosition == <<>>

\* what the last handler was: its name, the (text, cursor, anchor) it found
\* (kept for edits and find), the history position it found (kept for
\* edits), its arguments (kept for find), what it returned or raised, and the
\* last cursorPositionChanged triple it emitted
Call(op, before, found, args, result, emitted) ==
    [op |-> op, before |-> before, found |-> found, args |-> args,
     result |-> result, emitted |-> emitted]

\* _rebuild_layout: the derived state is recomputed from the new text and grid
SetLayout(L) ==
    /\ _units' = L.units
    /\ _cursor_slots' = L.cursor_slots
    /\ _total_pages' = L.total_pages

Rebuild(text, rows, cols) ==
    \E L \in {_rebuild_layout(text, rows, cols, _units)} : SetLayout(L)

HasLayout(L) ==
    /\ _units = L.units
    /\ _cursor_slots = L.cursor_slots
    /\ _total_pages = L.total_pages

InitTab(texts) ==
    /\ _text \in {normalize_newlines(t) : t \in texts}
    /\ _cursor_index = 0
    /\ _anchor_index = 0
    /\ _modified = FALSE
    /\ _saved_snapshot = _text
    /\ _grid_rows = DEFAULT_GRID
    /\ _grid_cols = DEFAULT_GRID
    /\ \E L \in {_rebuild_layout(_text, DEFAULT_GRID, DEFAULT_GRID, <<>>)} : HasLayout(L)
    /\ _history = << <<_text, 0, 0>> >>
    /\ _history_index = 0
    /\ submission = NoSubmission
    /\ last_call = Call("setPlainText", NoTriple, NoPosition, NoArgs, NoResult,
                        current_page_column_cell(_cursor_slots, _cursor_index,
                                                 _grid_cols))

\* VerticalManuscriptEditor.set_grid
clamp_grid(n) == Max(MIN_GRID, Min(MAX_GRID, n))

set_grid(rows, cols) ==
    /\ _grid_rows' = clamp_grid(rows)
    /\ _grid_cols' = clamp_grid(cols)
    /\ Rebuild(_text, clamp_grid(rows), clamp_grid(cols))
    /\ UNCHANGED <<_text, _cursor_index, _anchor_index, _modified,
                   _saved_snapshot, _history, _history_index, submission>>
    /\ last_call' = Call("set_grid", NoTriple, NoPosition, NoArgs, NoResult, PositionAfter)

SetGrid(inputs) == \E g \in inputs : set_grid(g[1], g[2])

\* VerticalManuscriptEditor.set_font_size: the cell size is not part of the
\* model, the layout is rebuilt
set_font_size ==
    /\ Rebuild(_text, _grid_rows, _grid_cols)
    /\ UNCHANGED <<_text, _cursor_index, _anchor_index, _modified,
                   _saved_snapshot, _grid_rows, _grid_cols, _history,
                   _history_index, submission>>
    /\ last_call' = Call("set_font_size", NoTriple, NoPosition, NoArgs, NoResult, PositionAfter)

\* MainWindow._export_text_to_pdf on editor.toPlainText(): the submission
\* layout of the normalised text at the fixed submission grid
ExportSubmission ==
    /\ submission' = _layout_submission_units(normalize_newlines(_text),
                                              SUBMISSION_ROWS, SUBMISSION_COLS)
    /\ UNCHANGED <<_text, _cursor_index, _anchor_index, _modified,
                   _saved_snapshot, _grid_rows, _grid_cols, _units,
                   _cursor_slots, _total_pages, _history, _history_index>>
    /\ last_call' = Call("export", NoTriple, NoPosition, NoArgs, NoResult, NoEvent)

-----------------------------------------------------------------------------
(* Editing: VerticalManuscriptEditor._apply_edit and its callers, undo,    *)
(* redo, setPlainText and the keys that move the cursor                    *)

\* the longest history the model lets an edit build
MaxHistory == 2

\* the operations that go through _apply_edit
EditOps == {"_insert_text", "_delete_backward", "_delete_forward"}

\* max(0, min(index, len(text)))
clamp_index(index, text) == Max(0, Min(index, Len(text)))

\* _selection_range
_selection_range == <<Min(_cursor_index, _anchor_index), Max(_cursor_index, _anchor_index)>>

\* text[:lo] + insert_text + text[hi:], a slice ending at the end of the
\* text when its bound is beyond it
splice(text, lo, hi, insert_text) ==
    SubSeq(text, 1, Min(lo, Len(text))) \o insert_text
        \o SubSeq(text, Min(hi, Len(text)) + 1, Len(text))

\* the dirty flag an edit, an undo or a redo computes for the text
differs_from_saved_always(text) == TRUE

differs_from_saved(text) == text # _saved_snapshot

\* no snapshot taken for the current entry
is_current_entry_never(snapshot) == FALSE

\* self._history and self._history[self._history_index] == snapshot
is_current_entry(snapshot) ==
    Len(_history) > 0 /\ _history[_history_index + 1] = snapshot

\* _push_history when the snapshot differs from the current entry
pushed_history_drop_current(snapshot) ==
    Append(SubSeq(_history, 1, _history_index), snapshot)

pushed_history(snapshot) == Append(SubSeq(_history, 1, _history_index + 1), snapshot)

\* _push_history: the snapshot is dropped when it equals the current entry;
\* otherwise the entries after the current one are cut and it is appended
_push_history(snapshot) ==
    IF is_current_entry(snapshot)
    THEN UNCHANGED <<_history, _history_index>>
    ELSE /\ Len(pushed_history(snapshot)) <= MaxHistory
         /\ _history' = pushed_history(snapshot)
         /\ _history_index' = Len(pushed_history(snapshot)) - 1

\* _apply_edit, called by the operation op
_apply_edit(new_text, new_cursor, new_anchor, op, args) ==
    /\ _text' = new_text
    /\ _cursor_index' = clamp_index(new_cursor, new_text)
    /\ _anchor_index' = clamp_index(new_anchor, new_text)
    /\ _modified' = differs_from_saved(new_text)
    /\ _push_history(<<new_text, clamp_index(new_cursor, new_text),
                       clamp_index(new_anchor, new_text)>>)
    /\ Rebuild(new_text, _grid_rows, _grid_cols)
    /\ UNCHANGED <<_saved_snapshot, _grid_rows, _grid_cols, submission>>
    /\ last_call' = Call(op, Triple, HistoryPosition, args, NoResult, PositionAfter)

\* _replace_selection, called by the operation op
_replace_selection(insert_text, op) ==
    _apply_edit(splice(_text, _selection_range[1], _selection_range[2],
                       normalize_newlines(insert_text)),
                _selection_range[1] + Len(normalize_newlines(insert_text)),
                _selection_range[1] + Len(normalize_newlines(insert_text)),
                op, <<insert_text>>)

\* _insert_text: nothing is done for an empty text
_insert_text(text) ==
    /\ Len(text) > 0
    /\ _replace_selection(text, "_insert_text")

InsertText(inputs) == \E text \in inputs : _insert_text(text)

\* _delete_backward: the selection, or the character before the cursor
_delete_backward ==
    IF _cursor_index # _anchor_index
    THEN _replace_selection(<<>>, "_delete_backward")
    ELSE /\ _cursor_index > 0
         /\ _apply_edit(splice(_text, _cursor_index - 1, _cursor_index, <<>>),
                        _cursor_index - 1, _cursor_index - 1, "_delete_backward",
                        NoArgs)

\* _delete_forward: the selection, or the character after the cursor
_delete_forward ==
    IF _cursor_index # _anchor_index
    THEN _replace_selection(<<>>, "_delete_forward")
    ELSE /\ _cursor_index < Len(_text)
         /\ _apply_edit(splice(_text, _cursor_index, _cursor_index + 1, <<>>),
                        _cursor_index, _cursor_index, "_delete_forward", NoArgs)

\* _apply_history_state on the history entry at index
_apply_history_state(index, op) ==
    /\ _history_index' = index
    /\ _text' = _history[index + 1][1]
    /\ _cursor_index' = clamp_index(_history[index + 1][2], _history[index + 1][1])
    /\ _anchor_index' = clamp_index(_history[index + 1][3], _history[index + 1][1])
    /\ _modified' = differs_from_saved(_history[index + 1][1])
    /\ Rebuild(_history[index + 1][1], _grid_rows, _grid_cols)
    /\ UNCHANGED <<_saved_snapshot, _grid_rows, _grid_cols, _history, submission>>
    /\ last_call' = Call(op, NoTriple, NoPosition, NoArgs, NoResult, PositionAfter)

undo ==
    /\ _history_index > 0
    /\ _apply_history_state(_history_index - 1, "undo")

redo ==
    /\ _history_index < Len(_history) - 1
    /\ _apply_history_state(_history_index + 1, "redo")

\* the cursor setPlainText keeps: min(self._cursor_index, len(self._text))
kept_cursor(cursor, text) == Min(cursor, Len(text))

\* setPlainText on the editor of an open tab
setPlainText(text) ==
    /\ _text' = normalize_newlines(text)
    /\ _cursor_index' = kept_cursor(_cursor_index, normalize_newlines(text))
    /\ _anchor_index' = kept_cursor(_cursor_index, normalize_newlines(text))
    /\ _modified' = FALSE
    /\ _saved_snapshot' = normalize_newlines(text)
    /\ _history' = << <<normalize_newlines(text),
                        kept_cursor(_cursor_index, normalize_newlines(text)),
                        kept_cursor(_cursor_index, normalize_newlines(text))>> >>
    /\ _history_index' = 0
    /\ Rebuild(normalize_newlines(text), _grid_rows, _grid_cols)
    /\ UNCHANGED <<_grid_rows, _grid_cols, submission>>
    /\ last_call' = Call("setPlainText", Triple, NoPosition, NoArgs, NoResult, PositionAfter)

SetPlainText(inputs) == \E text \in inputs : setPlainText(text)

\* setModified: clearing the flag takes the text as the saved snapshot
setModified(modified) ==
    /\ _modified' = modified
    /\ _saved_snapshot' = IF modified THEN _saved_snapshot ELSE _text
    /\ UNCHANGED <<_text, _cursor_index, _anchor_index, _grid_rows, _grid_cols,
                   _units, _cursor_slots, _total_pages, _history,
                   _history_index, submission>>
    /\ last_call' = Call("setModified", NoTriple, NoPosition, <<modified>>,
                         NoResult, NoEvent)

SetModified == \E modified \in BOOLEAN : setModified(modified)

\* a key that moves the cursor to index, the anchor too unless Shift is held
move_cursor(index, keep_anchor, op) ==
    /\ _cursor_index' = index
    /\ _anchor_index' = IF keep_anchor THEN _anchor_index ELSE index
    /\ UNCHANGED <<_text, _modified, _saved_snapshot, _grid_rows, _grid_cols,
                   _units, _cursor_slots, _total_pages, _history,
                   _history_index, submission>>
    /\ last_call' = Call(op, NoTriple, NoPosition, NoArgs, NoResult, PositionAfter)

\* keyPressEvent: Home and End
KeyHome == \E keep_anchor \in BOOLEAN : move_cursor(0, keep_anchor, "Key_Home")

KeyEnd == \E keep_anchor \in BOOLEAN : move_cursor(Len(_text), keep_anchor, "Key_End")

\* clearSelection: the anchor goes to the cursor, nothing is emitted
clearSelection ==
    /\ _anchor_index' = _cursor_index
    /\ UNCHANGED <<_text, _cursor_index, _modified, _saved_snapshot, _grid_rows,
                   _grid_cols, _units, _cursor_slots, _total_pages, _history,
                   _history_index, submission>>
    /\ last_call' = Call("clearSelection", NoTriple, NoPosition, NoArgs,
                         NoResult, NoEvent)

\* keyPressEvent: Ctrl+A
SelectAll ==
    /\ _anchor_index' = 0
    /\ _cursor_index' = Len(_text)
    /\ UNCHANGED <<_text, _modified, _saved_snapshot, _grid_rows, _grid_cols,
                   _units, _cursor_slots, _total_pages, _history,
                   _history_index, submission>>
    /\ last_call' = Call("Key_A", NoTriple, NoPosition, NoArgs, NoResult, NoEvent)

-----------------------------------------------------------------------------
(* Visual cursor moves and mouse clicks: _nearest_cursor_index,            *)
(* _move_cursor_visual, mousePressEvent                                     *)

\* best_dist before the scan of _nearest_cursor_index
HUGE_DIST == 1000000000

Abs(n) == IF n < 0 THEN -n ELSE n

\* the distance of a slot from the target cell: a column counts rows cells
slot_dist(slot, gcol_target, row_target, rows) ==
    Abs(slot[1] - gcol_target) * rows + Abs(slot[2] - row_target)

\* the scan taking a slot that is as near as the best one: the highest offset
\* whose slot is nearest the target
_nearest_cursor_index_last(slots, gcol_target, row_target, rows) ==
    LET near == {idx \in 0..(Len(slots) - 1) :
                    slot_dist(slots[idx + 1], gcol_target, row_target, rows) <= HUGE_DIST}
    IN  IF near = {} THEN 0
        ELSE CHOOSE idx \in near :
                \A j \in near :
                    \/ slot_dist(slots[idx + 1], gcol_target, row_target, rows)
                          < slot_dist(slots[j + 1], gcol_target, row_target, rows)
                    \/ /\ slot_dist(slots[idx + 1], gcol_target, row_target, rows)
                             = slot_dist(slots[j + 1], gcol_target, row_target, rows)
                       /\ idx >= j

\* _nearest_cursor_index: the lowest offset whose slot is nearest the target,
\* 0 when no slot is nearer than best_dist is at the start
_nearest_cursor_index(slots, gcol_target, row_target, rows) ==
    LET near == {idx \in 0..(Len(slots) - 1) :
                    slot_dist(slots[idx + 1], gcol_target, row_target, rows) < HUGE_DIST}
    IN  IF near = {} THEN 0
        ELSE CHOOSE idx \in near :
                \A j \in near :
                    \/ slot_dist(slots[idx + 1], gcol_target, row_target, rows)
                          < slot_dist(slots[j + 1], gcol_target, row_target, rows)
                    \/ /\ slot_dist(slots[idx + 1], gcol_target, row_target, rows)
                             = slot_dist(slots[j + 1], gcol_target, row_target, rows)
                       /\ idx <= j

\* the slot of the cursor
cursor_slot == _cursor_slots[Min(_cursor_index, Len(_cursor_slots) - 1) + 1]

\* the target cell of a visual move: the column floored at 0, the row clamped
\* to the grid
target_col(delta_col) == Max(0, cursor_slot[1] + delta_col)

target_row(delta_row) == Max(0, Min(_grid_rows - 1, cursor_slot[2] + delta_row))

\* the cursor put on offset idx by the handler op, the anchor too unless Shift
\* is held; the position is emitted
put_cursor(idx, keep_anchor, op, args) ==
    /\ _cursor_index' = idx
    /\ _anchor_index' = IF keep_anchor THEN _anchor_index ELSE idx
    /\ UNCHANGED <<_text, _modified, _saved_snapshot, _grid_rows, _grid_cols,
                   _units, _cursor_slots, _total_pages, _history,
                   _history_index, submission>>
    /\ last_call' = Call(op, NoTriple, NoPosition, args, NoResult, PositionAfter)

\* _move_cursor_visual
_move_cursor_visual(delta_col, delta_row, keep_anchor) ==
    /\ Len(_cursor_slots) > 0
    /\ put_cursor(_nearest_cursor_index(_cursor_slots, target_col(delta_col),
                                        target_row(delta_row), _grid_rows),
                  keep_anchor, "_move_cursor_visual",
                  <<delta_col, delta_row, keep_anchor>>)

\* keyPressEvent: Left, Right, Up, Down
ArrowDeltas == {<<1, 0>>, <<-1, 0>>, <<0, -1>>, <<0, 1>>}

KeyArrow ==
    \E d \in ArrowDeltas, keep_anchor \in BOOLEAN :
        _move_cursor_visual(d[1], d[2], keep_anchor)

\* mousePressEvent with the left button: the point is given by the cell
\* (gcol, row) that _point_to_grid finds for it, a cell of one of the pages
mousePressEvent(gcol, row, shift) ==
    /\ gcol >= 0
    /\ gcol < _total_pages * _grid_cols
    /\ row >= 0
    /\ row < _grid_rows
    /\ put_cursor(_nearest_cursor_index(_cursor_slots, gcol, row, _grid_rows),
                  shift, "mousePressEvent", NoArgs)

MouseClick(cells) ==
    \E cell \in cells, shift \in BOOLEAN : mousePressEvent(cell[1], cell[2], shift)

-----------------------------------------------------------------------------
(* Search: VerticalManuscriptEditor.find                                    *)
(*                                                                         *)
(* A pattern is a sequence of characters.  In regex mode the patterns of    *)
(* the model are made of literal characters, ".", "(" and ")": a group      *)
(* matches what its content matches, and a pattern whose parentheses do     *)
(* not balance does not compile.                                            *)
(*                                                                         *)
(* "U+0130" is the one character LATIN CAPITAL LETTER I WITH DOT ABOVE,     *)
(* the character whose str.lower has two characters: "i" and "U+0307",      *)
(* COMBINING DOT ABOVE.                                                     *)

\* str.lower of one character
lower(ch) ==
    IF ch = "A" THEN <<"a">> ELSE IF ch = "B" THEN <<"b">>
    ELSE IF ch = "I" THEN <<"i">>
    ELSE IF ch = "U+0130" THEN <<"i", "U+0307">> ELSE <<ch>>

RECURSIVE lower_text(_)
\* str.lower of a text: the lower of each character in turn
lower_text(text) ==
    IF Len(text) = 0 THEN <<>>
    ELSE lower(text[1]) \o lower_text(SubSeq(text, 2, Len(text)))

\* the letter that re.IGNORECASE compares a character by
ignorecase_key(ch) ==
    IF ch = "A" THEN "a" ELSE IF ch = "B" THEN "b"
    ELSE IF ch = "I" THEN "i"
    ELSE IF ch = "U+0130" THEN "i" ELSE ch

RECURSIVE paren_depths(_, _, _)
\* the nesting depth after each character of the pattern, from depth d at
\* index k
paren_depths(pattern, k, d) ==
    IF k > Len(pattern) THEN <<>>
    ELSE LET next == IF pattern[k] = "(" THEN d + 1
                     ELSE IF pattern[k] = ")" THEN d - 1 ELSE d
         IN  <<next>> \o paren_depths(pattern, k + 1, next)

\* re.compile raises re.error: a ")" without its "(", or a "(" never closed
re_compile_raises(pattern) ==
    LET depths == paren_depths(pattern, 1, 0)
    IN  \/ \E k \in 1..Len(depths) : depths[k] < 0
        \/ (Len(depths) > 0 /\ depths[Len(depths)] # 0)

\* the elements of a pattern that match one character each
pattern_elements(pattern, is_regex) ==
    IF is_regex THEN SelectSeq(pattern, LAMBDA ch : ch \notin {"(", ")"})
    ELSE pattern

\* one element of a pattern against one character of the text
element_matches(el, ch, is_regex, case_sensitive) ==
    IF is_regex /\ el = "." THEN ch # "\n"
    ELSE IF case_sensitive THEN el = ch
    ELSE ignorecase_key(el) = ignorecase_key(ch)

\* the elements match the text from offset idx, ending at or before hi and
\* the end of the text
matches_at(text, els, idx, hi, is_regex, case_sensitive) ==
    /\ idx + Len(els) <= Min(hi, Len(text))
    /\ \A k \in 1..Len(els) :
          element_matches(els[k], text[idx + k], is_regex, case_sensitive)

\* the offsets in [lo, hi] where the elements match within text[:hi]
match_offsets(text, els, lo, hi, is_regex, case_sensitive) ==
    {idx \in lo..hi : matches_at(text, els, idx, hi, is_regex, case_sensitive)}

\* where a search of text from pos begins: a regex takes a pos beyond the
\* text as the end of the text, str.find and str.rfind find nothing from it
search_pos(text, pos, is_regex) ==
    IF is_regex THEN Min(pos, Len(text)) ELSE pos

\* str.find and regex.search: the first match in text[lo:hi], or -1
first_match(text, els, lo, hi, is_regex, case_sensitive) ==
    LET S == match_offsets(text, els, search_pos(text, lo, is_regex), hi,
                           is_regex, case_sensitive)
    IN  IF S = {} THEN -1 ELSE CHOOSE idx \in S : \A j \in S : idx <= j

\* str.rfind: the last match in text[lo:hi], or -1
last_match(text, els, lo, hi, is_regex, case_sensitive) ==
    LET S == match_offsets(text, els, lo, hi, is_regex, case_sensitive)
    IN  IF S = {} THEN -1 ELSE CHOOSE idx \in S : \A j \in S : idx >= j

RECURSIVE finditer_from(_, _, _, _, _, _)
\* the last match the scanner of regex.finditer yields from pos, or last:
\* each match is looked for after the end of the one before, an empty match
\* one character after itself, until pos is beyond the end
finditer_from(text, els, pos, hi, case_sensitive, last) ==
    IF pos > Min(hi, Len(text)) THEN last
    ELSE LET idx == first_match(text, els, pos, hi, TRUE, case_sensitive)
         IN  IF idx < 0 THEN last
             ELSE finditer_from(text, els, idx + Max(1, Len(els)), hi,
                                case_sensitive, idx)

\* the last match regex.finditer(text, pos, hi) yields, or last; a pos or a
\* hi beyond the text is taken as the end of the text
last_of_finditer(text, els, pos, hi, case_sensitive, last) ==
    finditer_from(text, els, search_pos(text, pos, TRUE),
                  search_pos(text, hi, TRUE), case_sensitive, last)

\* where the search starts
find_start(forward) ==
    IF forward THEN Max(_cursor_index, _anchor_index)
    ELSE Min(_cursor_index, _anchor_index)

\* the second search of find, made when the first finds nothing
wrap_forward(text, els, start, is_regex, case_sensitive) ==
    first_match(text, els, 0, start, is_regex, case_sensitive)

wrap_backward(text, els, start, is_regex, case_sensitive) ==
    IF is_regex
    THEN last_of_finditer(text, els, start, Len(text), case_sensitive, -1)
    ELSE last_match(text, els, start, Len(text), is_regex, case_sensitive)

\* the offset of the match find selects, or -1
find_forward(text, els, start, is_regex, case_sensitive) ==
    IF first_match(text, els, start, Len(text), is_regex, case_sensitive) >= 0
    THEN first_match(text, els, start, Len(text), is_regex, case_sensitive)
    ELSE wrap_forward(text, els, start, is_regex, case_sensitive)

find_backward(text, els, start, is_regex, case_sensitive) ==
    LET before == IF is_regex
                  THEN last_of_finditer(text, els, 0, start, case_sensitive, -1)
                  ELSE last_match(text, els, 0, start, is_regex, case_sensitive)
    IN  IF before >= 0 THEN before
        ELSE wrap_backward(text, els, start, is_regex, case_sensitive)

\* what is searched: the text, lowered for a literal search that ignores
\* case
search_source(text, is_regex, case_sensitive) ==
    IF is_regex \/ case_sensitive THEN text ELSE lower_text(text)

\* what is searched for: the elements of the regex, or the pattern, lowered
\* for a literal search that ignores case
search_needle(pattern, is_regex, case_sensitive) ==
    IF is_regex THEN pattern_elements(pattern, is_regex)
    ELSE IF case_sensitive THEN pattern ELSE lower_text(pattern)

\* the length of the span selected: that of the regex match, or
\* len(pattern)
span_length(pattern, is_regex) ==
    IF is_regex THEN Len(pattern_elements(pattern, is_regex)) ELSE Len(pattern)

\* the start of the span find selects from the edge start, or -1; a literal
\* search compares the lowered strings exactly
find_offset(text, pattern, start, forward, is_regex, case_sensitive) ==
    IF forward
    THEN find_forward(search_source(text, is_regex, case_sensitive),
                      search_needle(pattern, is_regex, case_sensitive),
                      start, is_regex, ~is_regex \/ case_sensitive)
    ELSE find_backward(search_source(text, is_regex, case_sensitive),
                       search_needle(pattern, is_regex, case_sensitive),
                       start, is_regex, ~is_regex \/ case_sensitive)

\* find returns without a match, or raises: nothing changes
find_leaves(args, result) ==
    /\ UNCHANGED <<_text, _cursor_index, _anchor_index, _modified,
                   _saved_snapshot, _grid_rows, _grid_cols, _units,
                   _cursor_slots, _total_pages, _history, _history_index,
                   submission>>
    /\ last_call' = Call("find", Triple, NoPosition, args, result, NoEvent)

\* find selects the match [lo, hi): the anchor before it, the cursor after
find_selects(args, lo, hi) ==
    /\ _anchor_index' = lo
    /\ _cursor_index' = hi
    /\ UNCHANGED <<_text, _modified, _saved_snapshot, _grid_rows, _grid_cols,
                   _units, _cursor_slots, _total_pages, _history,
                   _history_index, submission>>
    /\ last_call' = Call("find", Triple, NoPosition, args, "True", PositionAfter)

\* find with a pattern that is not empty on a text that is not empty
find_in_text(args, length, idx) ==
    IF idx < 0 THEN find_leaves(args, "False")
    ELSE find_selects(args, idx, idx + length)

\* find with the empty pattern, selecting the empty match at offset 0
find_empty_pattern_selects(args) == find_selects(args, 0, 0)

\* find with the empty pattern: return False
find_empty_pattern(args) == find_leaves(args, "False")

find(pattern, forward, is_regex, case_sensitive) ==
    IF Len(pattern) = 0
    THEN find_empty_pattern(<<pattern, forward, is_regex, case_sensitive>>)
    ELSE IF Len(_text) = 0
    THEN find_leaves(<<pattern, forward, is_regex, case_sensitive>>, "False")
    ELSE IF is_regex /\ re_compile_raises(pattern)
    THEN find_leaves(<<pattern, forward, is_regex, case_sensitive>>, "re.error")
    ELSE find_in_text(<<pattern, forward, is_regex, case_sensitive>>,
                      span_length(pattern, is_regex),
                      find_offset(_text, pattern, find_start(forward), forward,
                                  is_regex, case_sensitive))

Find(patterns) ==
    \E pattern \in patterns, forward \in BOOLEAN, is_regex \in BOOLEAN,
       case_sensitive \in BOOLEAN :
        find(pattern, forward, is_regex, case_sensitive)

-----------------------------------------------------------------------------
(* The editor of a tab under editing *)

\* the texts a tab is opened on, and setPlainText is called with: the empty
\* text, one character, a text with a carriage return and a line feed, and a
\* text that fills a column of the smallest grid
EditorTexts == {<<>>, <<"a">>, <<"1", "\r", "\n", ")">>, Rep("a", MIN_GRID)}

\* the texts typed or pasted
InsertStrings == {<<"a">>, <<"\r">>}

\* (rows, cols) handed to set_grid: below the range and inside it
EditorGridInputs == {<<MIN_GRID - 1, MIN_GRID - 1>>, <<DEFAULT_GRID, DEFAULT_GRID>>}

Init == InitTab(EditorTexts)

Next ==
    \/ InsertText(InsertStrings)
    \/ _delete_backward
    \/ _delete_forward
    \/ undo
    \/ redo
    \/ SetPlainText(EditorTexts)
    \/ KeyHome
    \/ KeyEnd
    \/ SelectAll
    \/ clearSelection
    \/ SetGrid(EditorGridInputs)
    \/ set_font_size

Spec == Init /\ [][Next]_vars

-----------------------------------------------------------------------------
(* Saving a document under editing: edits, undo, redo and setModified *)

SavingTexts == {<<>>, <<"a">>}

SavingInsertStrings == {<<"a">>}

\* the empty pattern and a pattern that matches
SavingPatterns == {<<>>, <<"a">>}

InitSaving == InitTab(SavingTexts)

NextSaving ==
    \/ InsertText(SavingInsertStrings)
    \/ _delete_backward
    \/ _delete_forward
    \/ undo
    \/ redo
    \/ SelectAll
    \/ clearSelection
    \/ SetModified
    \/ Find(SavingPatterns)

SpecSaving == InitSaving /\ [][NextSaving]_vars

-----------------------------------------------------------------------------
(* Typing into a document: selections made with the keyboard and replaced  *)
(* by typed or pasted text                                                  *)

TypingTexts == {<<>>, <<"a", "b">>}

\* a letter, a CRLF, a lone CR, and a CR before a CRLF
TypingStrings == {<<"a">>, <<"\r", "\n">>, <<"\r">>, <<"\r", "\r", "\n">>}

InitTyping == InitTab(TypingTexts)

NextTyping ==
    \/ InsertText(TypingStrings)
    \/ _delete_backward
    \/ _delete_forward
    \/ SelectAll
    \/ clearSelection
    \/ KeyArrow
    \/ undo

SpecTyping == InitTyping /\ [][NextTyping]_vars

-----------------------------------------------------------------------------
(* Moving in a document: the arrow keys on a text of several columns, on   *)
(* the default and on the smallest grid                                     *)

\* a full column of the smallest grid before a short one, and a text with a
\* tate-chu-yoko token, whose two offsets have the same cell
MovingTexts ==
    {Rep("a", MIN_GRID) \o <<"\n", "a">>, <<"a", "1", "2", "\n", "a">>}

MovingGridInputs == {<<MIN_GRID, MIN_GRID>>}

InitMoving == InitTab(MovingTexts)

NextMoving ==
    \/ KeyArrow
    \/ SelectAll
    \/ clearSelection
    \/ SetGrid(MovingGridInputs)

SpecMoving == InitMoving /\ [][NextMoving]_vars

-----------------------------------------------------------------------------
(* Searching a document: a tab opened on a text, the cursor moved, find     *)

\* the empty text, a text where the matches of "aa" overlap, a text of two
\* columns with both cases of a letter, and a text whose lower is longer
SearchTexts ==
    {<<>>, <<"a", "a", "a">>, <<"A", "b", "\n", "a">>, <<"U+0130", "a">>}

\* the empty pattern, literal characters, patterns longer than one
\* character, one of them as long as a text, ".", a group, a group that
\* matches the empty string, and a "(" that is never closed
SearchPatterns ==
    {<<>>, <<"a">>, <<"a", "a">>, <<"a", "a", "a">>, <<"b">>, <<".">>,
     <<"(", "a", ")">>, <<"(", ")">>, <<"(">>}

InitSearch == InitTab(SearchTexts)

NextSearch ==
    \/ Find(SearchPatterns)
    \/ KeyHome
    \/ KeyEnd
    \/ KeyArrow
    \/ clearSelection

SpecSearch == InitSearch /\ [][NextSearch]_vars

-----------------------------------------------------------------------------
(* A session: every handler of the editor on a short document *)

\* the empty text and a text of two columns
SessionTexts == {<<>>, <<"A", "\n", "B">>}

SessionInsertStrings == {<<"a">>}

SessionPatterns == {<<"a">>}

SessionGridInputs == {<<MIN_GRID - 1, MAX_GRID + 1>>}

\* the cells clicked: the first cell, a cell of the second column, a cell of
\* the last row of the smallest grid
SessionCells == {<<0, 0>>, <<1, 1>>, <<0, MIN_GRID - 1>>}

InitSession == InitTab(SessionTexts)

NextSession ==
    \/ InsertText(SessionInsertStrings)
    \/ _delete_backward
    \/ _delete_forward
    \/ undo
    \/ redo
    \/ SetPlainText(SessionTexts)
    \/ KeyHome
    \/ KeyEnd
    \/ SelectAll
    \/ clearSelection
    \/ KeyArrow
    \/ MouseClick(SessionCells)
    \/ Find(SessionPatterns)
    \/ SetGrid(SessionGridInputs)
    \/ set_font_size

SpecSession == InitSession /\ [][NextSession]_vars

-----------------------------------------------------------------------------
(* A document of digits: a tab opened on a short text of ASCII digits,     *)
(* full-width digits and letters, regridded, exported                       *)

MaxDigitsLen == 3

DigitChars == {"a", "1", "U+FF11", "U+FF12"}

DigitTexts == SeqsUpTo(DigitChars, MaxDigitsLen)

InitDigits == InitTab(DigitTexts)

NextDigits == SetGrid(LayoutGridInputs) \/ ExportSubmission

SpecDigits == InitDigits /\ [][NextDigits]_vars

-----------------------------------------------------------------------------
(* The layout of a document: a tab opened on a text, regridded, exported *)

InitLayout == InitTab(LayoutTexts)

NextLayout == SetGrid(LayoutGridInputs) \/ ExportSubmission

SpecLayout == InitLayout /\ [][NextLayout]_vars

-----------------------------------------------------------------------------
(* Properties of the layout state *)

\* the cell of a unit, and the cells of a sequence of units
Cell(u) == <<u.gcol, u.row, u.kind, u.text>>

Cells(units) == [k \in 1..Len(units) |-> Cell(units[k])] \o <<>>

RECURSIVE FlattenPages(_, _)
\* the units of the pages p, p + 1, ... in page order
FlattenPages(pages, p) ==
    IF p > Len(pages) THEN <<>> ELSE pages[p] \o FlattenPages(pages, p + 1)

\* the slot recorded for offset k
SlotAt(k) == _cursor_slots[k + 1]

\* an export has run
Exported == submission.total_pages > 0

\* the layout the editor computes for its text at the submission grid, as the
\* one member of a set
InteractiveAtSubmissionGrid ==
    {_rebuild_layout(_text, SUBMISSION_ROWS, SUBMISSION_COLS, _units)}

\* C1: after any sequence of setPlainText, edits, undo, redo and set_grid the
\* slot table has len(text) + 1 entries, and every slot and every unit has
\* gcol >= 0 and 0 <= row < rows for the configured rows.
C1_SlotTableInRange ==
    /\ Len(_cursor_slots) = Len(_text) + 1
    /\ \A k \in 1..Len(_cursor_slots) :
          /\ _cursor_slots[k][1] >= 0
          /\ _cursor_slots[k][2] >= 0
          /\ _cursor_slots[k][2] < _grid_rows
    /\ \A k \in 1..Len(_units) :
          /\ _units[k].gcol >= 0
          /\ _units[k].row >= 0
          /\ _units[k].row < _grid_rows

\* an edit has left, on the smallest grid, a unit in the last row of a column
\* and a unit in a later column
C1_Witness ==
    /\ last_call.op \in EditOps
    /\ Len(_history) > 1
    /\ _grid_rows = MIN_GRID
    /\ \E k \in 1..Len(_units) : _units[k].row = _grid_rows - 1
    /\ \E k \in 1..Len(_units) : _units[k].gcol >= 1

\* C2 (as stated): for every unit u the slot of u.start, and of every interior
\* offset of u, is u's final cell (gcol, row), force-wrapped and pulled-back
\* units included.
C2_SlotsAreUnitCells ==
    \A k \in 1..Len(_units) :
        \A o \in _units[k].start .. (_units[k].end - 1) :
            SlotAt(o) = <<_units[k].gcol, _units[k].row>>

\* C3: the export layout at 40x40, flattened in page order, is the sequence of
\* (gcol, row, kind, text) of the interactive layout of the same text at
\* 40x40, whatever grid the editor has; with the editor at 40x40 it is the
\* sequence of the units the editor holds.
C3_ExportMatchesInteractive ==
    Exported =>
        /\ \A L \in InteractiveAtSubmissionGrid :
               Cells(FlattenPages(submission.page_units, 1)) = Cells(L.units)
        /\ (_grid_rows = SUBMISSION_ROWS /\ _grid_cols = SUBMISSION_COLS
               => Cells(FlattenPages(submission.page_units, 1)) = Cells(_units))

\* an export of two pages with units on both, while the editor has another
\* grid
C3_Witness ==
    /\ Exported
    /\ _grid_rows # SUBMISSION_ROWS
    /\ submission.total_pages = 2
    /\ Len(submission.page_units[1]) > 0
    /\ Len(submission.page_units[2]) > 0

\* C4 (as stated): the page count of the export layout at 40x40 is the
\* totalPages of the interactive layout of the same text at 40x40.
C4_PageCountsAgree ==
    Exported =>
        \A L \in InteractiveAtSubmissionGrid :
            submission.total_pages = L.total_pages

\* C5: the layout is a function of (text, rows, cols) alone: what the editor
\* holds is what a new editor computes for the same text and grid, whatever
\* the cursor, anchor, history, dirty flag and earlier layout are, and
\* rebuilding from the state the editor is in gives the same again.
C5_LayoutIsFunctionOfTextAndGrid ==
    /\ \A L \in {_rebuild_layout(_text, _grid_rows, _grid_cols, <<>>)} : HasLayout(L)
    /\ \A L \in {_rebuild_layout(_text, _grid_rows, _grid_cols, _units)} : HasLayout(L)

\* a second rebuild has run on an edited text, with the cursor moved, the
\* dirty flag set and a layout of several units held before
C5_Witness ==
    /\ last_call.op = "set_font_size"
    /\ Len(_history) > 1
    /\ _modified
    /\ _cursor_index # _anchor_index
    /\ Len(_units) > 1

\* the tokens of the text of the editor, as the one member of a set, and the
\* state the loop ends in
TokensOfText == {_tokenize(_text)}

TokenizeEnd == _tokenize_loop(_text, [i |-> 0, tokens |-> <<>>], Len(_text))

\* C6: the tokenizer ends, with the tokens partitioning [0, len) in increasing
\* offset order: the first starts at 0, each starts where the one before
\* ends, the last ends at len, each has length 1 or 2 and holds the
\* characters of its range, and the empty text has no token.
C6_TokensPartitionText ==
    /\ TokenizeEnd.i = Len(_text)
    /\ \A tokens \in TokensOfText :
          /\ (Len(_text) = 0 <=> Len(tokens) = 0)
          /\ (Len(tokens) > 0 =>
                 /\ tokens[1].start = 0
                 /\ tokens[Len(tokens)].end = Len(_text))
          /\ \A k \in 1..Len(tokens) :
                /\ tokens[k].end - tokens[k].start \in {1, 2}
                /\ tokens[k].text = SubSeq(_text, tokens[k].start + 1, tokens[k].end)
                /\ (k > 1 => tokens[k].start = tokens[k - 1].end)

\* a regridded text with a token of length 2 between two other tokens
C6_Witness ==
    \E tokens \in TokensOfText :
        /\ last_call.op = "set_grid"
        /\ \E k \in 2..(Len(tokens) - 1) : tokens[k].end - tokens[k].start = 2

\* a maximal run of digits starts at offset i
IsDigitRunStart(text, i) ==
    /\ isdigit(text[i + 1])
    /\ (i = 0 \/ ~isdigit(text[i]))

\* the offset after the maximal run of digits that holds offset i
DigitRunEnd(text, i) ==
    CHOOSE j \in (i + 1)..Len(text) :
        /\ \A m \in (i + 1)..j : isdigit(text[m])
        /\ (j = Len(text) \/ ~isdigit(text[j + 1]))

\* C7: a TCY token starts at offset i exactly when a maximal run of digits of
\* length exactly 2 starts at i; a TCY token spans the run, and every other
\* token, so every character of a run of length 1 or of 3 or more, is a token
\* of one character.
C7_TcyExactlyForRunsOfTwo ==
    \A tokens \in TokensOfText :
        /\ \A i \in 0..(Len(_text) - 1) :
              (\E k \in 1..Len(tokens) :
                   tokens[k].kind = "tcy" /\ tokens[k].start = i)
              <=> (IsDigitRunStart(_text, i) /\ DigitRunEnd(_text, i) = i + 2)
        /\ \A k \in 1..Len(tokens) :
              IF tokens[k].kind = "tcy"
              THEN tokens[k].end = tokens[k].start + 2
              ELSE tokens[k].end = tokens[k].start + 1

\* a regridded text that ends with a TCY token after a run of characters
\* that are no digits
C7_Witness ==
    \E tokens \in TokensOfText :
        /\ last_call.op = "set_grid"
        /\ Len(tokens) > MaxTail
        /\ tokens[Len(tokens)].kind = "tcy"
        /\ tokens[Len(tokens)].end = Len(_text)

\* C8: a line-end-prohibited token found at row rows - 1 is placed at row 0
\* of the next column, and no line-end-prohibited unit has row rows - 1 in
\* the final layout.
C8_LineEndSafe ==
    \A k \in 1..Len(_units) :
        _units[k].text \in LINE_END_PROHIBITED =>
            /\ _units[k].row # _grid_rows - 1
            /\ (SlotAt(_units[k].start)[2] = _grid_rows - 1
                   => /\ _units[k].gcol = SlotAt(_units[k].start)[1] + 1
                      /\ _units[k].row = 0)

\* on the smallest grid, a line-end-prohibited unit found at the last row and
\* force-wrapped
C8_Witness ==
    \E k \in 1..Len(_units) :
        /\ last_call.op = "set_grid"
        /\ _grid_rows = MIN_GRID
        /\ _units[k].text \in LINE_END_PROHIBITED
        /\ SlotAt(_units[k].start)[2] = _grid_rows - 1
        /\ _units[k].row = 0

\* unit k is a line-head-prohibited unit found at row 0 with a unit before it
HeadAtRowZero(k) ==
    /\ k > 1
    /\ _units[k].text \in LINE_HEAD_PROHIBITED
    /\ SlotAt(_units[k].start)[2] = 0

\* the unit before unit k was placed in the last row of the column before
\* the one unit k was found in
PrevSatAtColumnEnd(k) ==
    /\ _units[k - 1].text \notin LINE_END_PROHIBITED
    /\ SlotAt(_units[k - 1].start)
          = <<SlotAt(_units[k].start)[1] - 1, _grid_rows - 1>>

\* unit k - 1 is at row 0, and unit k at row 1, of the column unit k was
\* found in
PulledBack(k) ==
    /\ _units[k - 1].gcol = SlotAt(_units[k].start)[1]
    /\ _units[k - 1].row = 0
    /\ _units[k].gcol = SlotAt(_units[k].start)[1]
    /\ _units[k].row = 1

\* C9 (as stated): whenever a line-head-prohibited token is about to be
\* placed at row 0, the previous unit is moved to row 0 of that column and the
\* token is placed at row 1.
C9_AlwaysPulledBack ==
    \A k \in 1..Len(_units) : HeadAtRowZero(k) => PulledBack(k)

\* C9 (amended): a line-head-prohibited token about to be placed at row 0
\* pulls the previous unit to row 0 of that column, and goes to row 1, exactly
\* when the previous unit sat in the last row of the column before; otherwise
\* the token is placed at row 0 and the previous unit stays in an earlier
\* column.
C9_PulledBackFromColumnEnd ==
    \A k \in 1..Len(_units) :
        HeadAtRowZero(k) =>
            IF PrevSatAtColumnEnd(k)
            THEN PulledBack(k)
            ELSE /\ _units[k].gcol = SlotAt(_units[k].start)[1]
                 /\ _units[k].row = 0
                 /\ _units[k - 1].gcol < _units[k].gcol

\* on the smallest grid, a pull-back has happened
C9_Witness ==
    \E k \in 1..Len(_units) :
        /\ last_call.op = "set_grid"
        /\ _grid_rows = MIN_GRID
        /\ HeadAtRowZero(k) /\ PrevSatAtColumnEnd(k) /\ PulledBack(k)

\* C10 (as stated): an edit followed by an undo restores the (text, cursor,
\* anchor) that held immediately before the edit.
C10_EditThenUndoRestores ==
    [][(last_call.op \in EditOps /\ last_call'.op = "undo")
          => <<_text', _cursor_index', _anchor_index'>> = last_call.before]_vars

\* the handlers that move along or extend the history
HistoryOps == EditOps \cup {"undo", "redo"}

\* C11 (as stated): immediately after any edit the history index is the last
\* index, the entries after the index the edit found being discarded, so
\* that redo does nothing.
C11_EditEndsAtLastIndex ==
    last_call.op \in EditOps => _history_index = Len(_history) - 1

\* C11 (amended): an edit whose resulting (text, cursor, anchor) differs from
\* the current history entry discards every entry after the current index
\* and appends the result, so that the index is the last index and redo does
\* nothing; an edit whose result equals the current entry leaves the history
\* and the index as they are.
C11_RecordedEditTruncates ==
    [][last_call'.op \in EditOps =>
          IF <<_text', _cursor_index', _anchor_index'>> = _history[_history_index + 1]
          THEN UNCHANGED <<_history, _history_index>>
          ELSE /\ _history' = Append(SubSeq(_history, 1, _history_index + 1),
                                     <<_text', _cursor_index', _anchor_index'>>)
               /\ _history_index' = Len(_history') - 1
               /\ ~(_history_index' < Len(_history') - 1)]_vars

\* an edit found the index before the last entry, discarded that entry and
\* appended its own
C11_Witness ==
    /\ last_call.op \in EditOps
    /\ last_call.found = <<0, 2>>
    /\ _history_index = 1
    /\ Len(_history) = 2
    /\ _history[2] = Triple

\* C12: after every edit, undo and redo the dirty flag is (text differs from
\* the saved snapshot), so that returning to the saved text clears it without
\* a save; setModified(False) takes the text as the saved snapshot and clears
\* the flag.
C12_DirtyIsTextDiffers ==
    /\ last_call.op \in HistoryOps => (_modified <=> _text # _saved_snapshot)
    /\ (last_call.op = "setModified" /\ last_call.args = <<FALSE>>)
           => (~_modified /\ _saved_snapshot = _text)

\* a redo has returned to a text saved after the document was opened, and the
\* flag is clear
C12_Witness ==
    /\ last_call.op = "redo"
    /\ ~_modified
    /\ _saved_snapshot = _text
    /\ _saved_snapshot # _history[1][1]

\* C13 (as stated): whatever setPlainText, edits, undo, redo, find, visual moves, Home,
\* End, select-all and mouse clicks have been made, the cursor and the anchor
\* lie in [0, len(text)], and the cursor has a slot of the slot table.
C13_OffsetsInRange ==
    /\ _cursor_index \in 0..Len(_text)
    /\ _anchor_index \in 0..Len(_text)
    /\ _cursor_index + 1 \in DOMAIN _cursor_slots

\* the last call was find(pattern, forward, is_regex, case_sensitive) with a
\* pattern that is not empty and that compiles, on a text that is not empty
SearchedText ==
    /\ last_call.op = "find"
    /\ Len(last_call.args[1]) > 0
    /\ Len(_text) > 0
    /\ ~(last_call.args[3] /\ re_compile_raises(last_call.args[1]))

\* the elements of the pattern of the last call
SearchedElements == pattern_elements(last_call.args[1], last_call.args[3])

\* the offsets where the pattern of the last call matches in the text
Occurrences ==
    match_offsets(_text, SearchedElements, 0, Len(_text), last_call.args[3],
                  last_call.args[4])

\* the edge of the selection the last call started from
SearchedFrom ==
    IF last_call.args[2]
    THEN Max(last_call.before[2], last_call.before[3])
    ELSE Min(last_call.before[2], last_call.before[3])

\* the matches that lie before the edge, and those that start at or after it
OccurrencesBefore ==
    {idx \in Occurrences : idx + Len(SearchedElements) <= SearchedFrom}

OccurrencesAfter == {idx \in Occurrences : idx >= SearchedFrom}

\* the last call selected the match at offset idx
Selected(idx) ==
    /\ last_call.result = "True"
    /\ _anchor_index = idx
    /\ _cursor_index = idx + Len(SearchedElements)

\* C14 (as stated): a forward find with no match at or after the upper edge
\* of the selection and a match lying before it returns true and selects a
\* match lying before it; a backward find with no match before the lower edge
\* and one at or after it returns true and selects the last of the matches
\* at or after it.
C14_WrapsOnce ==
    SearchedText =>
        IF last_call.args[2]
        THEN (OccurrencesAfter = {} /\ OccurrencesBefore # {})
                 => \E idx \in OccurrencesBefore : Selected(idx)
        ELSE (OccurrencesBefore = {} /\ OccurrencesAfter # {})
                 => \E idx \in OccurrencesAfter :
                        /\ Selected(idx)
                        /\ \A j \in OccurrencesAfter : j <= idx

\* C15 (as stated): find in regex mode with a pattern that does not compile
\* ends in the invalid-pattern failure, which is not the result False,
\* whatever the text is, empty or not, and leaves the text, the cursor and the
\* anchor as they were.
C15_InvalidPatternReported ==
    (/\ last_call.op = "find"
     /\ last_call.args[3]
     /\ re_compile_raises(last_call.args[1]))
        => /\ last_call.result = "re.error"
           /\ Triple = last_call.before

\* C16: find with the empty pattern returns False and changes nothing: the
\* text, the cursor, the anchor, the history, its index, the dirty flag and
\* the saved snapshot are as before, and no position is emitted.
C16_EmptyPatternFails ==
    [][(last_call'.op = "find" /\ Len(last_call'.args[1]) = 0)
          => /\ last_call'.result = "False"
             /\ last_call'.emitted = NoEvent
             /\ UNCHANGED <<_text, _cursor_index, _anchor_index, _history,
                            _history_index, _modified, _saved_snapshot>>]_vars

\* find with the empty pattern has returned on a text that is not empty,
\* modified, with a selection and an entry to redo
C16_Witness ==
    /\ last_call.op = "find"
    /\ Len(last_call.args[1]) = 0
    /\ last_call.result = "False"
    /\ Len(_text) > 0
    /\ _modified
    /\ _cursor_index # _anchor_index
    /\ _history_index < Len(_history) - 1

\* C17 (as stated): every step that changes the offset of the cursor or the
\* cell of its slot, select-all included, emits cursorPositionChanged with
\* the 1-based (page, column, cell) of the slot of the cursor after the step.
C17_PositionEmitted ==
    [][(\/ _cursor_index' # _cursor_index
        \/ cursor_slot' # cursor_slot)
          => last_call'.emitted
                = <<(cursor_slot'[1] \div _grid_cols') + 1,
                    (cursor_slot'[1] % _grid_cols') + 1,
                    cursor_slot'[2] + 1>>]_vars

\* the gcol of every unit and of every cursor slot
ObservedGcols ==
    {_units[k].gcol : k \in 1..Len(_units)}
        \cup {_cursor_slots[k][1] : k \in 1..Len(_cursor_slots)}

\* C18: totalPages is max(1, M / cols + 1) with integer division, M being
\* the largest gcol of the units and the cursor slots together; the empty text
\* has no unit, the slot table [(0, 0)] and one page.
C18_TotalPages ==
    /\ ObservedGcols # {}
    /\ \A M \in ObservedGcols :
          (\A g \in ObservedGcols : g <= M)
              => _total_pages = Max(1, (M \div _grid_cols) + 1)
    /\ Len(_text) = 0
          => /\ _units = <<>>
             /\ _cursor_slots = << <<0, 0>> >>
             /\ _total_pages = 1

\* a regridded text of two pages whose last unit is on the first page: the
\* largest gcol is that of a cursor slot alone
C18_Witness ==
    /\ last_call.op = "set_grid"
    /\ _total_pages = 2
    /\ Len(_units) > 0
    /\ \A k \in 1..Len(_units) : _units[k].gcol < _grid_cols
    /\ \E k \in 1..Len(_cursor_slots) : _cursor_slots[k][1] >= _grid_cols

\* C19 (as stated): a TCY token is emitted only for two ASCII decimal digits,
\* by the tokenizer of the editor and by that of the export; two adjacent
\* digits of another script are two Char tokens.
C19_TcyOnlyForAsciiDigits ==
    /\ \A tokens \in TokensOfText :
          \A k \in 1..Len(tokens) :
              /\ tokens[k].kind = "tcy"
                     => /\ tokens[k].text[1] \in ASCII_DIGITS
                        /\ tokens[k].text[2] \in ASCII_DIGITS
              /\ _text[tokens[k].start + 1] \in FULLWIDTH_DIGITS
                     => tokens[k].kind = "char"
    /\ \A p \in 1..Len(submission.page_units) :
          \A k \in 1..Len(submission.page_units[p]) :
              submission.page_units[p][k].kind = "tcy"
                  => /\ submission.page_units[p][k].text[1] \in ASCII_DIGITS
                     /\ submission.page_units[p][k].text[2] \in ASCII_DIGITS

\* the text "A\nB", its layout on a grid of 3 rows and 3 columns as the one
\* member of a set, and the state its layout pass ends in
ScenarioText == <<"A", "\n", "B">>

ScenarioLayout == {_rebuild_layout(ScenarioText, 3, 3, <<>>)}

ScenarioPassEnd ==
    {layout_loop([units |-> <<>>, slots |-> fresh_slots(ScenarioText),
                  gcol |-> 0, row |-> 0], _tokenize(ScenarioText), 3)}

ScenarioTokens ==
    << [start |-> 0, end |-> 1, text |-> <<"A">>, kind |-> "char"],
       [start |-> 1, end |-> 2, text |-> <<"\n">>, kind |-> "newline"],
       [start |-> 2, end |-> 3, text |-> <<"B">>, kind |-> "char"] >>

ScenarioCells == << <<0, 0, "char", <<"A">> >>, <<1, 0, "char", <<"B">> >> >>

\* the tokens and the units of the scenario, on 3 rows and 3 columns and in
\* an editor that holds the text
ScenarioTokensAndUnits ==
    /\ _tokenize(ScenarioText) = ScenarioTokens
    /\ \A L \in ScenarioLayout : Cells(L.units) = ScenarioCells
    /\ _text = ScenarioText => Cells(_units) = ScenarioCells

\* the slot table of the scenario is slots, its last entry being the
\* position the pass ends at
ScenarioSlots(slots) ==
    /\ \A L \in ScenarioLayout : L.cursor_slots = slots
    /\ \A st \in ScenarioPassEnd : slots[Len(slots)] = <<st.gcol, st.row>>
    /\ _text = ScenarioText => _cursor_slots = slots

\* C20 (as stated): for the text "A\nB" on 3 rows and 3 columns the tokens
\* are Char 'A' [0,1), Newline [1,2), Char 'B' [2,3), the units are 'A' at
\* (0,0) and 'B' at (1,0), and the slot table is [(0,0), (1,0), (1,0), (1,1)],
\* its last entry being the final position of the pass.
C20_ScenarioAsStated ==
    /\ ScenarioTokensAndUnits
    /\ ScenarioSlots(<< <<0, 0>>, <<1, 0>>, <<1, 0>>, <<1, 1>> >>)

\* C20 (amended): the same tokens and units, and the slot table
\* [(0,0), (0,1), (1,0), (1,1)]: the slot of offset 1, where the newline
\* starts, is the cell after 'A' in column 0, not the head of column 1.
C20_ScenarioLayout ==
    /\ ScenarioTokensAndUnits
    /\ ScenarioSlots(<< <<0, 0>>, <<0, 1>>, <<1, 0>>, <<1, 1>> >>)

\* an editor that holds "A\nB" has been regridded to the smallest grid, with
\* the cursor on the newline
C20_Witness ==
    /\ _text = ScenarioText
    /\ last_call.op = "set_grid"
    /\ _grid_rows = MIN_GRID
    /\ _cursor_index = 1
    /\ cursor_slot = <<0, 1>>

RECURSIVE CanonicalNewlines(_)
\* s read from the left, every CRLF and every lone CR taken as one LF
CanonicalNewlines(s) ==
    IF Len(s) = 0 THEN <<>>
    ELSE IF s[1] = "\r" /\ Len(s) > 1 /\ s[2] = "\n"
    THEN <<"\n">> \o CanonicalNewlines(SubSeq(s, 3, Len(s)))
    ELSE IF s[1] = "\r"
    THEN <<"\n">> \o CanonicalNewlines(SubSeq(s, 2, Len(s)))
    ELSE <<s[1]>> \o CanonicalNewlines(SubSeq(s, 2, Len(s)))

\* the last call replaced the selection by the text last_call.args[1]
ReplacedSelection == last_call.op \in EditOps /\ last_call.args # NoArgs

\* C21: replacing the selection [lo, hi) = [min(cursor, anchor),
\* max(cursor, anchor)) by s gives text[0:lo] + norm(s) + text[hi:], norm
\* taking every CRLF and every lone CR to LF, and puts the cursor and the
\* anchor at lo + len(norm(s)).
C21_ReplaceSelection ==
    ReplacedSelection =>
        \A norm \in {CanonicalNewlines(last_call.args[1])} :
            \A lo \in {Min(last_call.before[2], last_call.before[3])} :
                \A hi \in {Max(last_call.before[2], last_call.before[3])} :
                    /\ _text = SubSeq(last_call.before[1], 1, lo) \o norm
                                  \o SubSeq(last_call.before[1], hi + 1,
                                            Len(last_call.before[1]))
                    /\ _cursor_index = lo + Len(norm)
                    /\ _anchor_index = lo + Len(norm)

\* a CR before a CRLF has replaced a selection of one character that has a
\* character after it, made backwards (the cursor before the anchor)
C21_Witness ==
    /\ ReplacedSelection
    /\ last_call.args[1] = <<"\r", "\r", "\n">>
    /\ last_call.before[2] < last_call.before[3]
    /\ last_call.before[3] < Len(last_call.before[1])
    /\ _cursor_index = last_call.before[2] + 2

\* the cell a visual move by (delta_col, delta_row) aims at from the slot of
\* the cursor: the column floored at 0, the row clamped to [0, rows - 1]
MoveTarget(delta_col, delta_row) ==
    <<IF cursor_slot[1] + delta_col < 0 THEN 0 ELSE cursor_slot[1] + delta_col,
      IF cursor_slot[2] + delta_row < 0 THEN 0
      ELSE IF cursor_slot[2] + delta_row > _grid_rows - 1 THEN _grid_rows - 1
      ELSE cursor_slot[2] + delta_row>>

\* |gcol' - gcol_target| * rows + |row' - row_target| for the slot of offset k
MoveDistance(k, target) ==
    Abs(_cursor_slots[k + 1][1] - target[1]) * _grid_rows
        + Abs(_cursor_slots[k + 1][2] - target[2])

\* C22: a visual move by (dcol, drow) puts the cursor on the offset whose
\* slot is nearest the target (max(0, gcol + dcol), clamp(row + drow, 0,
\* rows - 1)), a column counting rows cells and the lowest offset winning
\* ties; the anchor stays when keepAnchor is true and follows the cursor
\* otherwise; the text, the history, its index and the dirty flag stay.
C22_MoveVisual ==
    [][last_call'.op = "_move_cursor_visual" =>
          \A target \in {MoveTarget(last_call'.args[1], last_call'.args[2])} :
              /\ _cursor_index' \in 0..(Len(_cursor_slots) - 1)
              /\ \A k \in 0..(Len(_cursor_slots) - 1) :
                    \/ MoveDistance(_cursor_index', target) < MoveDistance(k, target)
                    \/ /\ MoveDistance(_cursor_index', target) = MoveDistance(k, target)
                       /\ _cursor_index' <= k
              /\ _anchor_index' = IF last_call'.args[3] THEN _anchor_index
                                   ELSE _cursor_index'
              /\ UNCHANGED <<_text, _history, _history_index, _modified,
                             _saved_snapshot>>]_vars

\* a tie: with Shift held, a move to the next column has put the cursor on
\* the first offset of a tate-chu-yoko token, the cell of the target, which
\* is also the cell of the offset after it
C22_Witness ==
    /\ last_call.op = "_move_cursor_visual"
    /\ last_call.args = <<-1, 0, TRUE>>
    /\ _anchor_index + 1 \in DOMAIN _cursor_slots
    /\ _cursor_slots[_anchor_index + 1][1] = cursor_slot[1] + 1
    /\ _cursor_slots[_anchor_index + 1][2] = cursor_slot[2]
    /\ _cursor_index + 2 \in DOMAIN _cursor_slots
    /\ _cursor_slots[_cursor_index + 2] = cursor_slot
    /\ \E k \in 1..Len(_units) :
          /\ _units[k].kind = "tcy"
          /\ _units[k].start = _cursor_index

\* the range [lo, hi) of the text is a match of the pattern
IsMatch(text, pattern, is_regex, case_sensitive, lo, hi) ==
    /\ 0 <= lo
    /\ hi <= Len(text)
    /\ hi = lo + Len(pattern_elements(pattern, is_regex))
    /\ matches_at(text, pattern_elements(pattern, is_regex), lo, Len(text),
                  is_regex, case_sensitive)

\* C23 (as stated): a find that succeeds puts the anchor at the start and
\* the cursor at the end of a match, so that the selected text is the matched
\* text, and leaves the text, the history, its index and the dirty flag; a
\* find that returns False leaves the cursor and the anchor too.
C23_FindSelectsMatch ==
    [][last_call'.op = "find" =>
          /\ UNCHANGED <<_text, _history, _history_index, _modified,
                         _saved_snapshot>>
          /\ last_call'.result = "True"
                 => IsMatch(_text, last_call'.args[1], last_call'.args[3],
                            last_call'.args[4], _anchor_index', _cursor_index')
          /\ last_call'.result = "False"
                 => UNCHANGED <<_cursor_index, _anchor_index>>]_vars

\* C24: an edit whose resulting (text, cursor, anchor) equals the current
\* history entry leaves the history and its index exactly as they were; an
\* edit whose result differs appends exactly one entry, its result, after
\* the current entry.
C24_NoOpEditNotRecorded ==
    [][last_call'.op \in EditOps =>
          IF _history[_history_index + 1]
                 = <<_text', _cursor_index', _anchor_index'>>
          THEN _history' = _history /\ _history_index' = _history_index
          ELSE /\ Len(_history') = _history_index + 2
               /\ \A k \in 1..(_history_index + 1) : _history'[k] = _history[k]
               /\ _history'[_history_index + 2]
                      = <<_text', _cursor_index', _anchor_index'>>
               /\ _history_index' = _history_index + 1]_vars

\* an edit has replaced a selection by the same text, ending on the current
\* history entry, and the history is as the edit found it
C24_Witness ==
    /\ last_call.op = "_insert_text"
    /\ last_call.before[2] # last_call.before[3]
    /\ last_call.before[1] = _text
    /\ last_call.found = <<_history_index, Len(_history)>>
    /\ _history[_history_index + 1] = Triple

\* C25 (as stated): a line-head-prohibited unit sits at row 0 only when it is
\* the first unit or its token directly follows a newline; no column that
\* wrapping produced begins with a line-head-prohibited unit.
C25_NoHeadProhibitedAtColumnHead ==
    \A k \in 1..Len(_units) :
        (_units[k].text \in LINE_HEAD_PROHIBITED /\ _units[k].row = 0)
            => \/ k = 1
               \/ _text[_units[k].start] = "\n"

\* the units the export lays out for the text, in layout order, as the one
\* member of a set
SubmissionUnits ==
    {submission_loop([units |-> <<>>, gcol |-> 0, row |-> 0],
                     _tokenize_for_submission(_text), SUBMISSION_ROWS).units}

\* C26: the export returns exactly total_pages >= 1 page lists; list p (from
\* 0) holds, in layout order, exactly the laid-out units with gcol / cols = p,
\* so that every unit is in exactly one list.
C26_PagesPartitionUnits ==
    Exported =>
        /\ submission.total_pages >= 1
        /\ Len(submission.page_units) = submission.total_pages
        /\ \A units \in SubmissionUnits :
              /\ \A p \in 1..Len(submission.page_units) :
                    submission.page_units[p]
                        = SelectSeq(units,
                                    LAMBDA u : u.gcol \div SUBMISSION_COLS = p - 1)
              /\ \A k \in 1..Len(units) :
                    (units[k].gcol \div SUBMISSION_COLS) + 1
                        \in 1..Len(submission.page_units)
              /\ Len(FlattenPages(submission.page_units, 1)) = Len(units)

\* an export of two pages, with one unit in the last column of the first
\* page and one in the first column of the second
C26_Witness ==
    /\ Exported
    /\ submission.total_pages = 2
    /\ Len(submission.page_units[1]) = 1
    /\ Len(submission.page_units[2]) = 1
    /\ submission.page_units[1][1].gcol = SUBMISSION_COLS - 1
    /\ submission.page_units[2][1].gcol = SUBMISSION_COLS

\* the history index is valid and the text is that of the current entry
HistoryValid ==
    /\ 0 <= _history_index
    /\ _history_index < Len(_history)
    /\ _text = _history[_history_index + 1][1]

\* setPlainText makes its (text, cursor, anchor) the only entry; no other
\* step changes the first entry; no undo is made at index 0 and no redo at
\* the last index
HistoryStep ==
    /\ IF last_call'.op = "setPlainText"
       THEN /\ _history' = << <<_text', _cursor_index', _anchor_index'>> >>
            /\ _history_index' = 0
       ELSE _history'[1] = _history[1]
    /\ last_call'.op = "undo" => _history_index > 0
    /\ last_call'.op = "redo" => _history_index < Len(_history) - 1

\* C27: in every reachable state 0 <= historyIndex < len(history) and the
\* text is the text of history[historyIndex]; history[0] is the (text,
\* cursor, anchor) that the last setPlainText established; undo at index 0 and
\* redo at the last index change nothing.
C27_HistoryValid == []HistoryValid /\ [][HistoryStep]_vars

\* an undo has returned to the entry of a setPlainText that kept the cursor
\* after the start of the text, and there is an entry to redo
C27_Witness ==
    /\ last_call.op = "undo"
    /\ _history_index = 0
    /\ Len(_history) = 2
    /\ _history[1][2] > 0
    /\ _text = _history[1][1]
    /\ _text # _history[2][1]

\* the cell (g1, r1) is before the cell (g2, r2) in column-then-row order
CellBefore(u, v) == u.gcol < v.gcol \/ (u.gcol = v.gcol /\ u.row < v.row)

\* the units of a layout are in strictly increasing cell order
StrictlyIncreasing(units) ==
    \A k \in 2..Len(units) : CellBefore(units[k - 1], units[k])

\* C28: the units of the editor, and those of the export in page order, are
\* in strictly increasing (gcol, row) order along the token order, so that no
\* two units have the same cell, pulled-back units included.
C28_UnitsStrictlyIncreasing ==
    /\ StrictlyIncreasing(_units)
    /\ \A j, k \in 1..Len(_units) :
          j # k => <<_units[j].gcol, _units[j].row>> # <<_units[k].gcol, _units[k].row>>
    /\ Exported => StrictlyIncreasing(FlattenPages(submission.page_units, 1))

\* on the default grid, after an export, a pull-back has put the last unit of
\* a full column and the token after it at the head of the next column, in
\* the editor and in the export
C28_Witness ==
    /\ Exported
    /\ _grid_rows = SUBMISSION_ROWS
    /\ \E k \in 3..Len(_units) :
          /\ _units[k].text \in LINE_HEAD_PROHIBITED
          /\ _units[k].row = 1
          /\ _units[k - 1].gcol = _units[k].gcol
          /\ _units[k - 1].row = 0
          /\ _units[k - 2].gcol = _units[k].gcol - 1
          /\ _units[k - 2].row = _grid_rows - 2
          /\ Cell(submission.page_units[1][k]) = Cell(_units[k])
          /\ Cell(submission.page_units[1][k - 1]) = Cell(_units[k - 1])

\* the flag is set although the text is the saved snapshot: the state that
\* setModified(True) leaves, and that no edit, undo or redo leaves
MarkedDirty == _modified /\ _text = _saved_snapshot

\* C29: a document marked dirty by setModified(True) while its text is the
\* saved snapshot stays dirty across the edits, undos and redos that follow,
\* until setModified(False) or setPlainText; here for the first edit, undo or
\* redo after the mark.
C29_MarkedDirtyStaysDirty ==
    [][(MarkedDirty /\ last_call'.op \in HistoryOps) => _modified']_vars

\* C30: a literal find with a pattern that is not empty returns true whenever
\* the pattern occurs anywhere in the text, whatever the cursor, the anchor
\* and the direction are, and false only when it occurs nowhere.
C30_LiteralFindTotal ==
    (/\ last_call.op = "find"
     /\ ~last_call.args[3]
     /\ Len(last_call.args[1]) > 0)
        => (last_call.result = "True" <=> Occurrences # {})

=============================================================================
